---- MODULE Spec2Model ----
(***************************************************************************)
(* Model of pull.py: a pull link is parsed, the manifest and blobs of the  *)
(* image are fetched from a registry into an output directory, and the     *)
(* directory is packed into an image archive.                              *)
(*                                                                         *)
(* Python strings are sequences of one-character strings, so that `in`,    *)
(* split, replace and concatenation are computed as Python computes them.  *)
(***************************************************************************)
EXTENDS Integers, Sequences, FiniteSets, TLC

\* ------------------------------------------------------------------ bounds
\* Longest image-and-reference tail, in tokens, of the generated pull links.
MaxTail == 5
\* Longest layer list of a manifest served by the registry.
MaxLayers == 2
\* Direct calls of create_image_tar made after main has returned.
MaxReruns == 1

\* ----------------------------------------------------------------- strings
COLON == <<":">>
USCORE == <<"_">>
SLASH == <<"/">>
PROTO == <<":", "/", "/">>
AT_SHA == <<"@", "s", "h", "a", "2", "5", "6", ":">>
SHA_COLON == <<"s", "h", "a", "2", "5", "6", ":">>
COLON_SHA_DASH == <<":", "s", "h", "a", "2", "5", "6", "-">>
LATEST == <<"l", "a", "t", "e", "s", "t">>
DOT_JSON == <<".", "j", "s", "o", "n">>
DOT_TAR_GZ == <<".", "t", "a", "r", ".", "g", "z">>
DOT_TAR == <<".", "t", "a", "r">>
MANIFEST_JSON == <<"m", "a", "n", "i", "f", "e", "s", "t", ".", "j", "s", "o", "n">>

\* s[i:] of Python, 1-based.
Drop(s, i) == SubSeq(s, i, Len(s))

\* Whether pat occurs in s at position i.
MatchAt(s, pat, i) ==
    /\ i >= 1
    /\ i + Len(pat) - 1 <= Len(s)
    /\ SubSeq(s, i, i + Len(pat) - 1) = pat

\* pat in s
Contains(s, pat) == \E i \in 1..Len(s) : MatchAt(s, pat, i)

\* s.find(pat) + 1 (0 when absent)
FindFirst(s, pat) ==
    IF Contains(s, pat)
    THEN CHOOSE i \in 1..Len(s) :
            /\ MatchAt(s, pat, i)
            /\ \A j \in 1..(i - 1) : ~MatchAt(s, pat, j)
    ELSE 0

\* s.split(sep): the pieces between the non-overlapping occurrences of sep,
\* scanned left to right.
RECURSIVE Split(_, _)
Split(s, sep) ==
    LET i == FindFirst(s, sep)
    IN  IF i = 0
        THEN <<s>>
        ELSE <<SubSeq(s, 1, i - 1)>> \o Split(Drop(s, i + Len(sep)), sep)

\* sep.join(parts)
RECURSIVE Join(_, _)
Join(parts, sep) ==
    IF Len(parts) = 0 THEN <<>>
    ELSE IF Len(parts) = 1 THEN parts[1]
    ELSE parts[1] \o sep \o Join(Tail(parts), sep)

\* s.replace(old, new)
Replace(s, old, new) == Join(Split(s, old), new)

\* ------------------------------------------------------- parse_docker_pull_link
NoStr == <<>>

ParseError == [ok |-> FALSE, host |-> NoStr, project |-> NoStr,
               image |-> NoStr, ref |-> NoStr]

\* Lines 31-38: the tag or digest of the tail. A two-target unpacking of a
\* split that yields another number of pieces raises ValueError.
SplitRef(image_and_ref) ==
    IF Contains(image_and_ref, AT_SHA)
    THEN LET p == Split(image_and_ref, AT_SHA)
         IN  IF Len(p) = 2
             THEN [ok |-> TRUE, image |-> p[1], ref |-> SHA_COLON \o p[2]]
             ELSE [ok |-> FALSE, image |-> NoStr, ref |-> NoStr]
    ELSE IF Contains(image_and_ref, COLON)
    THEN LET p == Split(image_and_ref, COLON)
         IN  IF Len(p) = 2
             THEN [ok |-> TRUE, image |-> p[1], ref |-> p[2]]
             ELSE [ok |-> FALSE, image |-> NoStr, ref |-> NoStr]
    ELSE [ok |-> TRUE, image |-> image_and_ref, ref |-> LATEST]

parse_docker_pull_link(link) ==
    IF Contains(link, PROTO) THEN ParseError
    ELSE LET parts == Split(link, SLASH)
         IN  IF Len(parts) < 3 THEN ParseError
             ELSE LET r == SplitRef(Join(SubSeq(parts, 3, Len(parts)), SLASH))
                  IN  IF ~r.ok THEN ParseError
                      ELSE [ok |-> TRUE, host |-> parts[1], project |-> parts[2],
                            image |-> r.image, ref |-> r.ref]

\* ---------------------------------------------------------------- file names
\* Lines 76/79, 101, 160-161: the file a blob is kept in.
BlobName(digest, is_config) ==
    Replace(digest, COLON, USCORE) \o (IF is_config THEN DOT_JSON ELSE DOT_TAR_GZ)

\* Mutant: only the last segment of the image name is kept.
TarPathLastSegment(image_name, image_ref) ==
    LET segs == Split(image_name, SLASH)
    IN  segs[Len(segs)] \o USCORE \o Replace(image_ref, COLON, USCORE) \o DOT_TAR

\* Line 253: the archive path main computes.
TarPath(image_name, image_ref) ==
    Replace(image_name, SLASH, USCORE) \o USCORE
        \o Replace(image_ref, COLON, USCORE) \o DOT_TAR

\* ------------------------------------------------------------------ documents
\* A JSON document as far as the program looks into it. ty is "dict", "list"
\* or "null"; a dict has keys among config/layers, hasDigest says whether
\* its config object has a digest; a list has items (loader entries).
NullDoc == [ty |-> "null", keys |-> {}, hasDigest |-> FALSE, config |-> NoStr,
            layers |-> <<>>, items |-> <<>>]

DictDoc(ks, hd, c, ls) ==
    [ty |-> "dict", keys |-> ks, hasDigest |-> hd, config |-> c,
     layers |-> ls, items |-> <<>>]

ListDoc(its) ==
    [ty |-> "list", keys |-> {}, hasDigest |-> FALSE, config |-> NoStr,
     layers |-> <<>>, items |-> its]

\* bool(doc): None, {} and [] are false.
Truthy(doc) ==
    CASE doc.ty = "dict" -> doc.keys # {}
      [] doc.ty = "list" -> doc.items # <<>>
      [] OTHER -> FALSE

\* ---------------------------------------------------------------------- files
\* A file's content: JSON text (kind "json"), other text (kind "text"), or
\* blob bytes (kind "blob": "stale" from before this run, "fresh" when
\* downloaded by it).
JsonFile(doc) == [kind |-> "json", bytes |-> "", doc |-> doc]
TextFile == [kind |-> "text", bytes |-> "", doc |-> NullDoc]
BlobFile(b) == [kind |-> "blob", bytes |-> b, doc |-> NullDoc]

\* os.path.exists(os.path.join(output_dir, name))
Exists(d, name) == name \in DOMAIN d

\* open(path, "w") and write
WriteFile(d, name, content) ==
    [f \in (DOMAIN d) \cup {name} |-> IF f = name THEN content ELSE d[f]]

NoArchive == [exists |-> FALSE, members |-> <<>>]

\* ----------------------------------------------------------- create_image_tar
Ok == [err |-> "ok", file |-> NoStr]
Err(kind, name) == [err |-> kind, file |-> name]

\* Lines 139-157: manifest.json is read and its shape checked.
TarCheckManifest(d) ==
    IF ~Exists(d, MANIFEST_JSON) THEN Err("FileNotFoundError", MANIFEST_JSON)
    ELSE IF d[MANIFEST_JSON].kind # "json" THEN Err("ValueError", NoStr)
    ELSE LET m == d[MANIFEST_JSON].doc
         IN  IF ~Truthy(m) THEN Err("ValueError", NoStr)
             ELSE IF m.ty # "dict" THEN Err("ValueError", NoStr)
             ELSE IF ~({"config", "layers"} \subseteq m.keys)
                  THEN Err("ValueError", NoStr)
             ELSE Ok

\* Line 161: the layer file names, in manifest order.
LayerFiles(layers) == [i \in 1..Len(layers) |-> BlobName(layers[i], FALSE)]

\* Lines 160-172: the blob files the manifest names must exist; the first one
\* missing is reported.
TarCheckFiles(d) ==
    LET m == d[MANIFEST_JSON].doc
        config_digest == BlobName(m.config, TRUE)
        layer_files == LayerFiles(m.layers)
        missing == {i \in 1..Len(layer_files) : ~Exists(d, layer_files[i])}
    IN  IF ~m.hasDigest THEN Err("KeyError", NoStr)
        ELSE IF ~Exists(d, config_digest)
             THEN Err("FileNotFoundError", config_digest)
        ELSE IF missing # {}
             THEN Err("FileNotFoundError",
                      layer_files[CHOOSE i \in missing : \A j \in missing : i <= j])
        ELSE Ok

\* Mutant: the pull link is recorded as it was typed.
RepoTagVerbatim(link) == [ok |-> TRUE, tag |-> link]

\* Lines 175-181: the repo tag of the pull link.
RepoTag(link) ==
    IF Contains(link, AT_SHA)
    THEN LET p == Split(link, AT_SHA)
         IN  IF Len(p) = 2
             THEN [ok |-> TRUE, tag |-> p[1] \o COLON_SHA_DASH \o p[2]]
             ELSE [ok |-> FALSE, tag |-> NoStr]
    ELSE [ok |-> TRUE, tag |-> link]

\* Lines 184-190: the loader manifest.
DockerManifest(m, repo_tag) ==
    ListDoc(<<[Config |-> BlobName(m.config, TRUE),
               RepoTags |-> <<repo_tag>>,
               Layers |-> LayerFiles(m.layers)]>>)

\* Mutant: the layers are added before the config file.
TarMembersLayersFirst(d, m) ==
    LET layer_files == LayerFiles(m.layers)
        config_digest == BlobName(m.config, TRUE)
    IN  <<[name |-> MANIFEST_JSON, content |-> d[MANIFEST_JSON]]>>
        \o [i \in 1..Len(layer_files) |->
                [name |-> layer_files[i], content |-> d[layer_files[i]]]]
        \o <<[name |-> config_digest, content |-> d[config_digest]]>>

\* Lines 198-208: the members added to the archive, read from the directory.
TarMembers(d, m) ==
    LET layer_files == LayerFiles(m.layers)
        config_digest == BlobName(m.config, TRUE)
    IN  <<[name |-> MANIFEST_JSON, content |-> d[MANIFEST_JSON]]>>
        \o <<[name |-> config_digest, content |-> d[config_digest]]>>
        \o [i \in 1..Len(layer_files) |->
                [name |-> layer_files[i], content |-> d[layer_files[i]]]]

\* Lines 192-208: manifest.json is overwritten, then the archive is written.
TarWrite(d, link) ==
    LET m == d[MANIFEST_JSON].doc
        d2 == WriteFile(d, MANIFEST_JSON,
                        JsonFile(DockerManifest(m, RepoTag(link).tag)))
    IN  [dir |-> d2, archive |-> [exists |-> TRUE, members |-> TarMembers(d2, m)]]

Failed(e, d, a) == [err |-> e.err, file |-> e.file, dir |-> d, archive |-> a]

\* Mutant: the archive is opened for writing before the manifest is checked.
CreateImageTarOpenFirst(d, a, link) ==
    LET opened == [exists |-> TRUE, members |-> <<>>]
        e1 == TarCheckManifest(d)
    IN  IF e1.err # "ok" THEN Failed(e1, d, opened)
        ELSE LET e2 == TarCheckFiles(d)
             IN  IF e2.err # "ok" THEN Failed(e2, d, opened)
                 ELSE IF ~RepoTag(link).ok
                      THEN Failed(Err("ValueError", NoStr), d, opened)
                 ELSE LET w == TarWrite(d, link)
                      IN  [err |-> "ok", file |-> NoStr, dir |-> w.dir,
                           archive |-> w.archive]

\* Mutant: manifest.json is rewritten before the blob files are checked.
CreateImageTarWriteFirst(d, a, link) ==
    LET e1 == TarCheckManifest(d)
    IN  IF e1.err # "ok" THEN Failed(e1, d, a)
        ELSE IF ~d[MANIFEST_JSON].doc.hasDigest
             THEN Failed(Err("KeyError", NoStr), d, a)
        ELSE IF ~RepoTag(link).ok THEN Failed(Err("ValueError", NoStr), d, a)
        ELSE LET d2 == WriteFile(d, MANIFEST_JSON,
                           JsonFile(DockerManifest(d[MANIFEST_JSON].doc,
                                                   RepoTag(link).tag)))
                 e2 == TarCheckFiles(d)
             IN  IF e2.err # "ok" THEN Failed(e2, d2, a)
                 ELSE LET w == TarWrite(d, link)
                      IN  [err |-> "ok", file |-> NoStr, dir |-> w.dir,
                           archive |-> w.archive]

\* Lines 131-210: the outcome of create_image_tar on directory d, archive
\* file a and pull link: the error raised ("ok" for none) with the file it
\* names, and the directory and archive file it leaves.
CreateImageTar(d, a, link) ==
    LET e1 == TarCheckManifest(d)
    IN  IF e1.err # "ok" THEN Failed(e1, d, a)
        ELSE LET e2 == TarCheckFiles(d)
             IN  IF e2.err # "ok" THEN Failed(e2, d, a)
                 ELSE IF ~RepoTag(link).ok
                      THEN Failed(Err("ValueError", NoStr), d, a)
                 ELSE LET w == TarWrite(d, link)
                      IN  [err |-> "ok", file |-> NoStr, dir |-> w.dir,
                           archive |-> w.archive]

\* ------------------------------------------------------------------- registry
\* The registry's answers: whether the manifest request gets a 200, the
\* document it returns, and the blob digests whose request gets another
\* status.
NoRegistryManifest == [manifestOk |-> FALSE, manifest |-> NullDoc, failing |-> {}]

\* Lines 59-61: get_manifest raises on a status other than 200.
GetManifest(reg) == [ok |-> reg.manifestOk, manifest |-> reg.manifest]

\* Lines 64-84: download_blob raises on a status other than 200 and otherwise
\* writes the body to the blob's file, replacing what was there.
DownloadBlob(d, reg, digest, is_config) ==
    IF digest \in reg.failing
    THEN [ok |-> FALSE, dir |-> d]
    ELSE [ok |-> TRUE,
          dir |-> WriteFile(d, BlobName(digest, is_config), BlobFile("fresh"))]

\* Mutant: the config blob is downloaded whether or not its file exists.
ConfigNeededAlways(d, config_file) == TRUE

\* Line 103: the config blob is downloaded when its file does not exist.
ConfigNeeded(d, config_file) == ~Exists(d, config_file)

\* Line 112: manifest.get("layers", [])
PullLayers(m) == IF "layers" \in m.keys THEN m.layers ELSE <<>>

\* Line 100: manifest["config"]["digest"] raises unless the document is a
\* dict with a config object that has a digest.
HasConfigDigest(m) == m.ty = "dict" /\ "config" \in m.keys /\ m.hasDigest

\* Mutant: a failed layer download is logged and the loop goes on.
LayerStepKeepGoing(ok, i) == [pc |-> "layers", li |-> i + 1]

\* Lines 116-120: after a layer download the loop goes on; after a failed one
\* pull_image returns.
LayerStep(ok, i) ==
    IF ok THEN [pc |-> "layers", li |-> i + 1] ELSE [pc |-> "tar", li |-> i]

\* ---------------------------------------------------------------------- state
VARIABLES
    pc,         \* where main is: parse, fetch_manifest, config, layers, tar, done
    pull_link,  \* args.pull_link
    parsed,     \* the result of parse_docker_pull_link
    registry,   \* the registry's answers during this run
    dir,        \* the output directory: file name -> content
    archive,    \* the file at tar_path
    manifest,   \* pull_image's manifest
    li,         \* pull_image's position in the layer list
    tar_path,   \* main's tar_path
    requests,   \* the requests sent to the registry, in order
    out,        \* the lines printed, in order
    lastTar,    \* how the last call of create_image_tar ended
    reruns,     \* calls of create_image_tar made after main returned
    dir0,       \* the output directory when main started
    archive0    \* the file at tar_path when main started

vars == <<pc, pull_link, parsed, registry, dir, archive, manifest, li, tar_path,
          requests, out, lastTar, reruns, dir0, archive0>>

Line(m, a) == [msg |-> m, arg |-> a]
Request(k, d, ok) == [kind |-> k, digest |-> d, ok |-> ok]

\* ------------------------------------------------------------ initial states
CFG == SHA_COLON \o <<"c">>
LX == SHA_COLON \o <<"x">>
LY == SHA_COLON \o <<"y">>

LayerSeqs == UNION {[1..n -> {LX, LY}] : n \in 0..MaxLayers}

\* Documents a registry may return: well-formed manifests, and documents
\* without a layers key, without a config key, without a config digest, or
\* that are no object.
RegistryManifests ==
    {DictDoc({"config", "layers"}, TRUE, CFG, ls) : ls \in LayerSeqs}
    \cup {DictDoc({"config"}, TRUE, CFG, <<>>),
          DictDoc({"layers"}, FALSE, NoStr, <<LX>>),
          DictDoc({"config", "layers"}, FALSE, NoStr, <<LX>>),
          ListDoc(<<>>)}

Registries ==
    {NoRegistryManifest}
    \cup {[manifestOk |-> TRUE, manifest |-> m, failing |-> f] :
            m \in RegistryManifests, f \in SUBSET {CFG, LX, LY}}

TagLink == <<"h", "/", "p", "/", "a", ":", "t">>
DigestLink == <<"h", "/", "p", "/", "a", "/", "b">> \o AT_SHA \o <<"a", "b">>
ProtoLink == <<"h">> \o PROTO \o <<"p", "/", "a">>
MainLinks == {TagLink, DigestLink, ProtoLink}

\* What manifest.json may hold when main starts (0 for no file): text that
\* is no JSON, null, {}, [], a loader manifest left by an earlier run, and
\* registry manifests, whole or lacking a key.
OldManifests ==
    {TextFile, JsonFile(NullDoc), JsonFile(DictDoc({}, FALSE, NoStr, <<>>)),
     JsonFile(ListDoc(<<>>)),
     JsonFile(DockerManifest(DictDoc({"config", "layers"}, TRUE, CFG, <<LX>>),
                             TagLink)),
     JsonFile(DictDoc({"config"}, TRUE, CFG, <<>>)),
     JsonFile(DictDoc({"layers"}, FALSE, NoStr, <<LX>>)),
     JsonFile(DictDoc({"config", "layers"}, FALSE, NoStr, <<LX>>)),
     JsonFile(DictDoc({"config", "layers"}, TRUE, CFG, <<LX>>)),
     JsonFile(DictDoc({"config", "layers"}, TRUE, CFG, <<LX, LY>>))}

BlobFileNames == {BlobName(CFG, TRUE), BlobName(LX, FALSE), BlobName(LY, FALSE)}

EmptyDir == [f \in {} |-> TextFile]

Dirs ==
    {[f \in bs |-> BlobFile("stale")] : bs \in SUBSET BlobFileNames}
    \cup {[f \in bs \cup {MANIFEST_JSON} |->
              IF f = MANIFEST_JSON THEN m ELSE BlobFile("stale")] :
            bs \in SUBSET BlobFileNames, m \in OldManifests}

OldArchive ==
    [exists |-> TRUE, members |-> <<[name |-> MANIFEST_JSON, content |-> TextFile]>>]

InitWith(links, regs, dirs, archives) ==
    /\ pull_link \in links
    /\ registry \in regs
    /\ dir \in dirs
    /\ archive \in archives
    /\ dir0 = dir
    /\ archive0 = archive
    /\ pc = "parse"
    /\ parsed = ParseError
    /\ manifest = NullDoc
    /\ li = 1
    /\ tar_path = NoStr
    /\ requests = <<>>
    /\ out = <<>>
    /\ lastTar = Err("none", NoStr)
    /\ reruns = 0

Init == InitWith(MainLinks, Registries, Dirs, {NoArchive, OldArchive})

\* Pull links generated from tokens: a prefix followed by every tail of at
\* most MaxTail tokens, "D" standing for "@sha256:".
Tokens == {"a", "/", ":", "D"}
TokenSeqs == UNION {[1..n -> Tokens] : n \in 0..MaxTail}

RECURSIVE Flatten(_)
Flatten(ts) ==
    IF Len(ts) = 0 THEN <<>>
    ELSE (IF ts[1] = "D" THEN AT_SHA ELSE <<ts[1]>>) \o Flatten(Tail(ts))

Prefixes == {<<>>, <<"h", "/">>, <<"h", "/", "p", "/">>,
             <<"h">> \o PROTO \o <<"p", "/">>}
GenLinks == {p \o Flatten(t) : p \in Prefixes, t \in TokenSeqs}

GoodRegistry ==
    [manifestOk |-> TRUE,
     manifest |-> DictDoc({"config", "layers"}, TRUE, CFG, <<LX>>),
     failing |-> {}]

InitParse ==
    InitWith(GenLinks, {GoodRegistry, NoRegistryManifest}, {EmptyDir}, {NoArchive})

\* -------------------------------------------------------------------- actions
\* Lines 225-230: main parses the pull link and returns on ValueError.
Parse ==
    /\ pc = "parse"
    /\ parsed' = parse_docker_pull_link(pull_link)
    /\ pc' = IF parsed'.ok THEN "fetch_manifest" ELSE "done"
    /\ out' = Append(out, Line(IF parsed'.ok THEN "parsed" ELSE "parse_error", NoStr))
    /\ UNCHANGED <<pull_link, registry, dir, archive, manifest, li, tar_path,
                   requests, lastTar, reruns, dir0, archive0>>

\* Lines 89-97: pull_image fetches the manifest; when that fails it prints
\* and returns to main, which goes on to line 253.
FetchManifest ==
    /\ pc = "fetch_manifest"
    /\ LET r == GetManifest(registry)
       IN  /\ requests' = Append(requests, Request("manifest", parsed.ref, r.ok))
           /\ manifest' = IF r.ok THEN r.manifest ELSE manifest
           /\ pc' = IF r.ok THEN "config" ELSE "tar"
           /\ out' = Append(out, Line(IF r.ok THEN "manifest_fetched"
                                      ELSE "fetch_manifest_failed", NoStr))
    /\ UNCHANGED <<pull_link, parsed, registry, dir, archive, li, tar_path,
                   lastTar, reruns, dir0, archive0>>

\* Lines 100-109: the config blob. An exception of line 100 leaves pull_image
\* and main returns at line 250; a failed download returns to main normally.
PullConfig ==
    /\ pc = "config"
    /\ IF ~HasConfigDigest(manifest)
       THEN /\ pc' = "done"
            /\ out' = Append(out, Line("pull_exception", NoStr))
            /\ UNCHANGED <<dir, requests>>
       ELSE IF ~ConfigNeeded(dir, BlobName(manifest.config, TRUE))
       THEN /\ pc' = "layers"
            /\ UNCHANGED <<dir, requests, out>>
       ELSE LET r == DownloadBlob(dir, registry, manifest.config, TRUE)
            IN  /\ requests' = Append(requests, Request("config", manifest.config, r.ok))
                /\ dir' = r.dir
                /\ pc' = IF r.ok THEN "layers" ELSE "tar"
                /\ out' = out \o <<Line("downloading_config", manifest.config)>>
                              \o (IF r.ok THEN <<>>
                                  ELSE <<Line("config_failed", manifest.config)>>)
    /\ li' = 1
    /\ UNCHANGED <<pull_link, parsed, registry, archive, manifest, tar_path,
                   lastTar, reruns, dir0, archive0>>

\* Lines 113-120: one round of the layer loop.
PullLayer ==
    /\ pc = "layers"
    /\ li <= Len(PullLayers(manifest))
    /\ LET blob_digest == PullLayers(manifest)[li]
           r == DownloadBlob(dir, registry, blob_digest, FALSE)
           next == LayerStep(r.ok, li)
       IN  /\ requests' = Append(requests, Request("layer", blob_digest, r.ok))
           /\ dir' = r.dir
           /\ pc' = next.pc
           /\ li' = next.li
           /\ out' = out \o <<Line("downloading_layer", blob_digest)>>
                         \o (IF r.ok THEN <<>>
                             ELSE <<Line("layer_failed", blob_digest)>>)
    /\ UNCHANGED <<pull_link, parsed, registry, archive, manifest, tar_path,
                   lastTar, reruns, dir0, archive0>>

\* Lines 123-128: after the loop the fetched manifest is saved.
SaveManifest ==
    /\ pc = "layers"
    /\ li > Len(PullLayers(manifest))
    /\ dir' = WriteFile(dir, MANIFEST_JSON, JsonFile(manifest))
    /\ out' = out \o <<Line("manifest_saved", NoStr), Line("pulled", NoStr)>>
    /\ pc' = "tar"
    /\ UNCHANGED <<pull_link, parsed, registry, archive, manifest, li, tar_path,
                   requests, lastTar, reruns, dir0, archive0>>

\* Lines 253-257: main computes tar_path and calls create_image_tar.
Assemble ==
    /\ pc = "tar"
    /\ tar_path' = TarPath(parsed.image, parsed.ref)
    /\ LET r == CreateImageTar(dir, archive, pull_link)
       IN  /\ dir' = r.dir
           /\ archive' = r.archive
           /\ lastTar' = Err(r.err, r.file)
           /\ out' = Append(out, IF r.err = "ok" THEN Line("tar_created", tar_path')
                                 ELSE Line("tar_failed", r.file))
    /\ pc' = "done"
    /\ UNCHANGED <<pull_link, parsed, registry, manifest, li, requests, reruns,
                   dir0, archive0>>

\* create_image_tar called once more with the arguments main gave it.
AssembleAgain ==
    /\ pc = "done"
    /\ lastTar.err # "none"
    /\ reruns < MaxReruns
    /\ LET r == CreateImageTar(dir, archive, pull_link)
       IN  /\ dir' = r.dir
           /\ archive' = r.archive
           /\ lastTar' = Err(r.err, r.file)
           /\ out' = IF r.err = "ok" THEN Append(out, Line("tar_created", tar_path))
                     ELSE out
    /\ reruns' = reruns + 1
    /\ UNCHANGED <<pc, pull_link, parsed, registry, manifest, li, tar_path,
                   requests, dir0, archive0>>

Next ==
    \/ Parse
    \/ FetchManifest
    \/ PullConfig
    \/ PullLayer
    \/ SaveManifest
    \/ Assemble
    \/ AssembleAgain

Spec == Init /\ [][Next]_vars

SpecParse == InitParse /\ [][Next]_vars

\* ------------------------------------------------- vocabulary of the properties
\* The names and paths below are computed character by character, not with
\* the split and join the program uses.
MapChar(s, from, to) == [i \in 1..Len(s) |-> IF s[i] = from THEN to ELSE s[i]]
NameOf(digest, ext) == MapChar(digest, ":", "_") \o ext
Positions(s, c) == {i \in 1..Len(s) : s[i] = c}
Least(S) == CHOOSE i \in S : \A j \in S : i <= j
Greatest(S) == CHOOSE i \in S : \A j \in S : i >= j
\* The text after the second '/' of a link with at least two.
TailOf(link) ==
    LET first == Least(Positions(link, "/"))
    IN  Drop(link, Least({i \in Positions(link, "/") : i > first}) + 1)

HasFailure(rs) == \E i \in 1..Len(rs) : ~rs[i].ok
Said(m) == \E i \in 1..Len(out) : out[i].msg = m
Absent == [kind |-> "absent", bytes |-> "", doc |-> NullDoc]
ManifestOf(d) == IF Exists(d, MANIFEST_JSON) THEN d[MANIFEST_JSON] ELSE Absent
MemberNames(a) == [i \in 1..Len(a.members) |-> a.members[i].name]
\* A step that is a call of create_image_tar: by main, or after it.
TarStep == pc = "tar" \/ reruns' # reruns

\* C1: in one run of main, once the manifest fetch or a blob download has
\* failed, create_image_tar is not called, manifest.json is what it was when
\* the run started and so is the archive file.
C1_FailureAbortsRun ==
    (HasFailure(requests) /\ reruns = 0)
        => /\ lastTar.err = "none"
           /\ ManifestOf(dir) = ManifestOf(dir0)
           /\ archive = archive0

\* C2: a call of create_image_tar that succeeds on a manifest with config
\* digest c and layers d1..dn writes an archive whose members are, in order,
\* manifest.json, name(c, .json), name(d1, .tar.gz) .. name(dn, .tar.gz), and
\* a manifest.json holding one entry whose Config is the second member's
\* name and whose Layers are the names of the members after it; the archive's
\* first member is that manifest.json.
C2_ArchiveMatchesLoaderManifest ==
    [][(TarStep /\ lastTar'.err = "ok") =>
        LET m == dir[MANIFEST_JSON].doc
            names == MemberNames(archive')
            written == dir'[MANIFEST_JSON]
        IN  /\ names = <<MANIFEST_JSON, NameOf(m.config, DOT_JSON)>>
                        \o [i \in 1..Len(m.layers) |-> NameOf(m.layers[i], DOT_TAR_GZ)]
            /\ Len(names) = 2 + Len(m.layers)
            /\ written.kind = "json"
            /\ written.doc.ty = "list"
            /\ Len(written.doc.items) = 1
            /\ written.doc.items[1].Config = names[2]
            /\ written.doc.items[1].Layers = SubSeq(names, 3, Len(names))
            /\ archive'.members[1].content = written
            /\ \A i \in 2..Len(names) : archive'.members[i].content = dir[names[i]]
      ]_vars

\* C2 witness: an archive of a two-layer manifest has been written.
C2_Witness ==
    /\ lastTar.err = "ok"
    /\ archive.exists
    /\ Len(archive.members) = 4
    /\ archive.members[3].name # archive.members[4].name

\* What a call of create_image_tar on directory d must raise, and the file
\* the error names, for the cases of C3 ("other" outside them).
C3_Expected(d) ==
    LET f == ManifestOf(d)
        m == f.doc
        firstMissing == Least({i \in 1..Len(m.layers) :
                                ~Exists(d, NameOf(m.layers[i], DOT_TAR_GZ))})
    IN  IF f.kind = "absent" THEN Err("FileNotFoundError", MANIFEST_JSON)
        ELSE IF f.kind # "json" THEN Err("ValueError", NoStr)
        ELSE IF m.ty # "dict" \/ ~({"config", "layers"} \subseteq m.keys)
             THEN Err("ValueError", NoStr)
        ELSE IF ~m.hasDigest THEN Err("other", NoStr)
        ELSE IF ~Exists(d, NameOf(m.config, DOT_JSON))
             THEN Err("FileNotFoundError", NameOf(m.config, DOT_JSON))
        ELSE IF \E i \in 1..Len(m.layers) : ~Exists(d, NameOf(m.layers[i], DOT_TAR_GZ))
             THEN Err("FileNotFoundError", NameOf(m.layers[firstMissing], DOT_TAR_GZ))
        ELSE Err("other", NoStr)

\* C3: a call of create_image_tar on a directory whose manifest.json is
\* absent, no JSON, empty, no object or lacks config or layers, or whose
\* manifest names a config or layer file that is missing, raises (ValueError
\* for the manifest's shape, FileNotFoundError naming manifest.json or the
\* first missing blob file) and leaves every file of the directory and the
\* archive file as they were.
C3_FailedAssemblyChangesNothing ==
    [][(TarStep /\ C3_Expected(dir).err # "other") =>
        /\ lastTar' = C3_Expected(dir)
        /\ dir' = dir
        /\ archive' = archive
      ]_vars

\* C3 witness: main's call failed on the second layer's file, missing beside
\* the first's, with an older archive in place.
C3_Witness ==
    /\ pc = "done"
    /\ reruns = 0
    /\ lastTar = Err("FileNotFoundError", NameOf(LY, DOT_TAR_GZ))
    /\ Exists(dir, NameOf(LX, DOT_TAR_GZ))
    /\ archive = OldArchive

\* C4: a second call of create_image_tar, right after one that succeeded,
\* either succeeds with the same manifest.json and archive members, or
\* raises and leaves the directory and the archive as the first call left
\* them.
C4_SecondAssembly ==
    [][(reruns' = reruns + 1 /\ lastTar.err = "ok") =>
        \/ /\ lastTar'.err = "ok"
           /\ ManifestOf(dir') = ManifestOf(dir)
           /\ archive'.members = archive.members
        \/ /\ lastTar'.err # "ok"
           /\ dir' = dir
           /\ archive' = archive
      ]_vars

\* C4 witness: the second call has been made after a first that wrote an
\* archive of three members or more.
C4_Witness ==
    /\ reruns = 1
    /\ Said("tar_created")
    /\ archive.exists
    /\ Len(archive.members) >= 3
    /\ lastTar.err # "none"

\* The pull links of C5: no "://", at least three segments, a tail with ':'
\* and without "@sha256:".
C5_Pre(link) ==
    /\ ~Contains(link, PROTO)
    /\ Cardinality(Positions(link, "/")) >= 2
    /\ Positions(TailOf(link), ":") # {}
    /\ ~Contains(TailOf(link), AT_SHA)

\* C5: such a link parses, the image being the tail before its first colon
\* and the ref all the text after that colon.
C5_SplitsOnFirstColon ==
    (pc # "parse" /\ C5_Pre(pull_link)) =>
        LET tail == TailOf(pull_link)
            c == Least(Positions(tail, ":"))
        IN  /\ parsed.ok
            /\ parsed.image = SubSeq(tail, 1, c - 1)
            /\ parsed.ref = Drop(tail, c + 1)

\* The pull links of C6: <host>/<project>/<image-path>@sha256:<hex>, the
\* text before '@' free of ':' and '@' and holding two '/' or more, the hex
\* digits non-empty.
HexDigits == {"0", "1", "2", "3", "4", "5", "6", "7", "8", "9",
              "a", "b", "c", "d", "e", "f"}
DigestForm(link) ==
    /\ Positions(link, "@") # {}
    /\ LET at == Least(Positions(link, "@"))
           pre == SubSeq(link, 1, at - 1)
           hex == Drop(link, at + Len(AT_SHA))
       IN  /\ MatchAt(link, AT_SHA, at)
           /\ Positions(pre, ":") = {}
           /\ Cardinality(Positions(pre, "/")) >= 2
           /\ Len(hex) >= 1
           /\ \A i \in 1..Len(hex) : hex[i] \in HexDigits

\* C6: a link of that form parses to ref sha256:<hex> and image = the tail
\* before '@'; an archive assembled for it records the single repo tag
\* <text before @>:sha256-<hex>, and one assembled for a link without
\* "@sha256:" records the link itself.
C6_DigestRefAndRepoTag ==
    LET at == Least(Positions(pull_link, "@"))
        pre == SubSeq(pull_link, 1, at - 1)
        hex == Drop(pull_link, at + Len(AT_SHA))
        tags == dir[MANIFEST_JSON].doc.items[1].RepoTags
    IN  /\ (pc # "parse" /\ DigestForm(pull_link)) =>
                /\ parsed.ok
                /\ parsed.ref = SHA_COLON \o hex
                /\ parsed.image = TailOf(pre)
        /\ (lastTar.err = "ok" /\ DigestForm(pull_link)) =>
                tags = <<pre \o COLON_SHA_DASH \o hex>>
        /\ (lastTar.err = "ok" /\ ~Contains(pull_link, AT_SHA)) =>
                tags = <<pull_link>>

\* C6 witness: an archive was assembled for a digest link whose image name
\* has two segments.
C6_Witness ==
    /\ lastTar.err = "ok"
    /\ DigestForm(pull_link)
    /\ Contains(parsed.image, SLASH)

\* C7 as stated: the archive path is <last segment of the image name>_<ref
\* with ':' replaced by '_'>.tar.
C7_LastSegmentPath ==
    lastTar.err # "none" =>
        LET slashes == Positions(parsed.image, "/")
            last == IF slashes = {} THEN parsed.image
                    ELSE Drop(parsed.image, Greatest(slashes) + 1)
        IN  tar_path = last \o USCORE \o MapChar(parsed.ref, ":", "_") \o DOT_TAR

\* C7 amended: the archive path is <image name with every '/' replaced by
\* '_'>_<ref with every ':' replaced by '_'>.tar, which for an image name of
\* one segment is <last segment>_<ref>.tar.
C7_SlashesReplacedPath ==
    lastTar.err # "none" =>
        tar_path = MapChar(parsed.image, "/", "_") \o USCORE
                     \o MapChar(parsed.ref, ":", "_") \o DOT_TAR

\* C7 witness: create_image_tar was called for an image name of two
\* segments and a ref with a colon.
C7_Witness ==
    /\ lastTar.err # "none"
    /\ Positions(parsed.image, "/") # {}
    /\ Positions(parsed.ref, ":") # {}

\* The requests of a kind, in order.
RECURSIVE OfKind(_, _)
OfKind(rs, k) ==
    IF Len(rs) = 0 THEN <<>>
    ELSE (IF rs[1].kind = k THEN <<rs[1]>> ELSE <<>>) \o OfKind(Tail(rs), k)
Digests(rs) == [i \in 1..Len(rs) |-> rs[i].digest]
\* pull_image has got past the config step.
PastConfig == Said("manifest_fetched") /\ pc # "config" /\ HasConfigDigest(manifest)

\* C8: the config blob is requested only if its file did not exist, and a
\* config file that existed is still what it was; the layer loop requests
\* each layer it comes to, whether or not its file existed, and replaces the
\* file: the layers requested are the first ones of the manifest, one per
\* round, all of them once pull_image has saved the manifest, and each
\* downloaded layer's file holds the downloaded bytes.
C8_ConfigSkippedLayersRefetched ==
    LET cfg == NameOf(manifest.config, DOT_JSON)
        lreq == OfKind(requests, "layer")
        layers == PullLayers(manifest)
    IN  /\ PastConfig =>
            /\ (OfKind(requests, "config") # <<>>) => ~Exists(dir0, cfg)
            /\ Exists(dir0, cfg) => dir[cfg] = dir0[cfg]
        /\ Len(lreq) <= Len(layers)
        /\ Digests(lreq) = SubSeq(layers, 1, Len(lreq))
        /\ pc = "layers" => Len(lreq) = li - 1
        /\ Said("manifest_saved") => Len(lreq) = Len(layers)
        /\ \A i \in 1..Len(lreq) :
              lreq[i].ok => dir[NameOf(lreq[i].digest, DOT_TAR_GZ)] = BlobFile("fresh")

\* C8 witness: a pull has completed in a directory that held the config file
\* and the first layer's file; the layer was fetched again, the config was
\* not.
C8_Witness ==
    /\ Said("manifest_saved")
    /\ Exists(dir0, NameOf(CFG, DOT_JSON))
    /\ Exists(dir0, NameOf(LX, DOT_TAR_GZ))
    /\ dir[NameOf(CFG, DOT_JSON)] = BlobFile("stale")
    /\ dir[NameOf(LX, DOT_TAR_GZ)] = BlobFile("fresh")
    /\ OfKind(requests, "config") = <<>>
    /\ Len(OfKind(requests, "layer")) >= 2

\* C9: the requests of a run are the manifest request, then the config
\* request if one is made, then layer requests in manifest order; only the
\* last request can have failed; the file of every successful download is in
\* place; and once pull_image has saved the manifest no request failed,
\* every layer was requested, and the config file and every layer file exist.
C9_PullOrder ==
    LET layers == PullLayers(manifest)
        blobs == IF Len(requests) = 0 THEN <<>> ELSE Tail(requests)
        creq == OfKind(requests, "config")
        lreq == OfKind(requests, "layer")
    IN  /\ Len(requests) >= 1 => requests[1].kind = "manifest"
        /\ (Len(requests) >= 2 \/ pc \in {"config", "layers"}) => requests[1].ok
        /\ \A i \in 1..(Len(requests) - 1) : requests[i].ok
        /\ blobs = creq \o lreq
        /\ Len(creq) <= 1
        /\ creq # <<>> => creq[1].digest = manifest.config
        /\ Digests(lreq) = SubSeq(layers, 1, Len(lreq))
        /\ HasFailure(requests) => pc \in {"tar", "done"}
        /\ \A i \in 1..Len(blobs) :
              blobs[i].ok =>
                 dir[NameOf(blobs[i].digest,
                            IF blobs[i].kind = "config" THEN DOT_JSON ELSE DOT_TAR_GZ)]
                    = BlobFile("fresh")
        /\ Said("manifest_saved") =>
              /\ ~HasFailure(requests)
              /\ Digests(lreq) = layers
              /\ Exists(dir, NameOf(manifest.config, DOT_JSON))
              /\ \A i \in 1..Len(layers) : Exists(dir, NameOf(layers[i], DOT_TAR_GZ))
        /\ (pc = "tar" /\ Said("manifest_saved")) => ManifestOf(dir) = JsonFile(manifest)

\* C9 witness: the second layer's download failed after the config and the
\* first layer were downloaded; their files are in place and no manifest
\* was saved.
C9_Witness ==
    /\ Len(requests) = 4
    /\ requests[2].kind = "config" /\ requests[2].ok
    /\ requests[3].kind = "layer" /\ requests[3].ok
    /\ requests[4].kind = "layer" /\ ~requests[4].ok
    /\ requests[3].digest # requests[4].digest
    /\ dir[NameOf(requests[3].digest, DOT_TAR_GZ)] = BlobFile("fresh")
    /\ ~Said("manifest_saved")
    /\ pc = "done"

\* C10: when pull_image has saved the manifest, the call of create_image_tar
\* that follows succeeds and the archive's layers are the manifest's layers
\* in order.
C10_PulledManifestAssembles ==
    (Said("manifest_saved") /\ lastTar.err # "none" /\ reruns = 0) =>
        /\ lastTar.err = "ok"
        /\ archive.exists
        /\ SubSeq(MemberNames(archive), 3, Len(archive.members))
              = [i \in 1..Len(PullLayers(manifest)) |->
                    NameOf(PullLayers(manifest)[i], DOT_TAR_GZ)]

====
